---- MODULE Spec2Model ----
(***************************************************************************)
(* Expression manager plugin (plugin.py): the expression store and the     *)
(* commands that read and write it.                                        *)
(*                                                                         *)
(* Weights are Python floats in the source.  They are modelled as integers *)
(* counting thousandths, so that 0.01 is 10, 0.1 is 100, 0.5 is 500 and    *)
(* 5.0 is 5000, and sums that fall strictly between 0 and 0.01 exist.      *)
(***************************************************************************)
EXTENDS Integers, Sequences, FiniteSets, TLC

\* ---------------------------------------------------------------- bounds
MaxId == 3          \* ids the store can hand out: 1..MaxId
MaxTime == 1        \* the clock (time.time()) runs 0..MaxTime
MaxCmds == 2        \* number of commands issued in one behaviour
MaxEntries == 2     \* entries in one learning response

\* ------------------------------------------------------ program constants
WMin == 10          \* 0.01
WMax == 5000        \* 5.0
DupBoost == 100     \* 0.1
SitBoost == 500     \* 0.5

\* ------------------------------------------------------------ value sets
NoDate == 0 - 1     \* create_date is None
NoChat == "None"    \* a chat id that could not be determined

Ids == 1..MaxId
Chats == {"c1", "c2"}                 \* stand for two 32-hex chat ids
Situations == {"s1", "s2"}
Styles == {"t1"}

\* chat_spec tokens after "in": absent, a 32-hex id, a platform:id:type
\* triple, a token the host cannot parse.
ChatSpecs == {"", "c2", "qq:1:group", "bad"}
\* self.message.chat_stream.stream_id, None when there is no chat stream
Streams == {"c1", NoChat}

\* w=<float> tokens of the add command ("" when the clause is absent)
WeightStrs == {"", "0.004", "7.5"}
\* signed delta tokens of the weight command
DeltaStrs == {"-1.0", "-0.995", "+4.5"}

\* float(s) in thousandths, for the tokens above
Float(s) ==
  CASE s = "1.0" -> 1000
    [] s = "0.004" -> 4
    [] s = "7.5" -> 7500
    [] s = "-1.0" -> 0 - 1000
    [] s = "-0.995" -> 0 - 995
    [] s = "+4.5" -> 4500

Max(a, b) == IF a >= b THEN a ELSE b
Min(a, b) == IF a <= b THEN a ELSE b

\* Clamp without its lower limit
ClampNoFloor(w) == Min(WMax, w)

\* max(0.01, min(5.0, w))
Clamp(w) == Max(WMin, Min(WMax, w))

\* The duplicate boost without its cap
AddDuplicateBoostUncapped(w) == w + DupBoost

\* min(5.0, obj.count + 0.1)
AddDuplicateBoost(w) == Min(WMax, w + DupBoost)

VARIABLES
  store,      \* the Expression table: a function from the ids in use to rows
  now,        \* the value time.time() returns
  ncmd,       \* commands issued so far
  last,       \* the command that has just returned, with its parsed input and
              \* its (success, message) result, until the host has taken it
  learn,      \* the /expr learn invocation: where it is and its locals
  analyze     \* the /expr msg invocation: where it is and its locals

vars == <<store, now, ncmd, last, learn, analyze>>

Row(c, s, t, w, lat, cd) ==
  [chat_id |-> c, situation |-> s, style |-> t, count |-> w,
   last_active_time |-> lat, create_date |-> cd, type |-> "expression"]

\* What a command leaves behind: which command it was, the chat it resolved,
\* the row id and the numeric token of its input (for a failed model call:
\* the error text the message quotes), and the returned (success flag,
\* message) pair.  req holds the page= and size= tokens of a list command;
\* head and ids are what a listing shows: the numbers of its header line
\* and the row ids of its lines, in order.
Result(cmd, ok, msg, chat, id, arg) ==
  [cmd |-> cmd, ok |-> ok, msg |-> msg, chat |-> chat, id |-> id, arg |-> arg,
   situation |-> "", style |-> "", updated |-> 0,
   req |-> <<>>, head |-> <<>>, ids |-> <<>>]

\* Every command answers a text that does not match its pattern with the
\* same usage text
UsageShared(cmd) == "usage"

\* The usage text of a command: each execute has its own literal
Usage(cmd) ==
  CASE cmd = "add" -> "usage_add"
    [] cmd = "list" -> "usage_list"
    [] cmd = "del" -> "usage_del"
    [] cmd = "weight" -> "usage_weight"
    [] cmd = "learn" -> "usage_learn"
    [] cmd = "msg" -> "usage_msg"

NoResult == Result("none", TRUE, "none", NoChat, 0, "")

Existing(st) == DOMAIN st

\* The id Expression.create gives a new row: the table's integer primary
\* key, one more than the largest id in use.
RECURSIVE MaxOf(_)
MaxOf(S) == IF S = {} THEN 0
            ELSE LET x == CHOOSE y \in S : TRUE
                 IN Max(x, MaxOf(S \ {x}))
NewId(st) == MaxOf(DOMAIN st) + 1

\* row.save() of a fetched row, and Expression.create(...)
Save(st, i, row) == [j \in DOMAIN st \cup {i} |-> IF j = i THEN row ELSE st[j]]
\* A deletion that takes every row of the chat of row i
DeleteInstancesOfChat(st, i) ==
  [j \in {k \in DOMAIN st : st[k].chat_id # st[i].chat_id} |-> st[j]]

\* row.delete_instance()
DeleteInstance(st, i) == [j \in DOMAIN st \ {i} |-> st[j]]

\* ------------------------------------------------- chat id resolution
IsMd5(tok) == tok \in Chats

\* ExpressionSelector._parse_stream_config_to_chat_id of the host: the
\* chat id of a platform:id:type triple, None for anything else.
HostParseStreamConfig(tok) == IF tok = "qq:1:group" THEN "c1" ELSE NoChat

ParseStreamConfigToChatId(tok) ==
  IF tok = "" THEN NoChat
  ELSE IF IsMd5(tok) THEN tok
  ELSE HostParseStreamConfig(tok)

\* A target chat is assumed when none can be determined
TargetChatAssumed(chat_spec, stream) ==
  IF ParseStreamConfigToChatId(chat_spec) # NoChat
  THEN ParseStreamConfigToChatId(chat_spec)
  ELSE IF stream # NoChat THEN stream ELSE "c1"

\* chat_id = _parse_stream_config_to_chat_id(chat_spec); when that is None
\* the stream id of the issuing chat, when there is one.
TargetChat(chat_spec, stream) ==
  IF ParseStreamConfigToChatId(chat_spec) # NoChat
  THEN ParseStreamConfigToChatId(chat_spec)
  ELSE stream

\* ------------------------------------------------ invocation records
\* pc: idle | analysis (awaiting the usage-analysis call) | learning
\* (awaiting the learning call) | apply (in the loop over the response's
\* entries) | report (the loop is over).  ids: expression_ids.  used: the
\* ids of actual_used_expressions.  details: expressions_details, then
\* actual_used_expressions.  avail: available_models, and model:
\* model_to_use, of the call in flight.  (ids is kept until
\* actual_used_expressions is built from it, avail and model until the call
\* returns: nothing reads them afterwards.)
\* decoded: whether the learning response gave JSON data.
\* rem: entries of the response not yet reached.  entry: expr_data, the
\* entry the loop is at.  count: updated_count.
NoEntry == [dict |-> FALSE, id |-> <<>>, ns |-> ""]

LearnIdle ==
  [pc |-> "idle", ids |-> <<>>, details |-> <<>>, used |-> <<>>,
   avail |-> <<>>, model |-> "",
   decoded |-> FALSE, rem |-> 0, entry |-> NoEntry, count |-> 0]

AnalyzeIdle == [pc |-> "idle", avail |-> <<>>, model |-> ""]

\* ---------------------------------------------------------------- Init
\* The table is persistent: rows written earlier (by this plugin or by the
\* host's own learner, which may leave create_date empty) are there when
\* the plugin starts.  All weights are in [0.01, 5.0].
RowA == Row("c1", "s1", "t1", 1000, 0, NoDate)
RowB == Row("c1", "s2", "t1", 4950, 0, 0)
RowC == Row("c2", "s1", "t1", 4700, 0, 0)

InitStores ==
  { <<>>, <<RowA>>, <<RowA, RowB>>, <<RowA, RowC>> }

Init ==
  /\ store \in InitStores
  /\ now = 0
  /\ ncmd = 0
  /\ last = NoResult
  /\ learn = LearnIdle
  /\ analyze = AnalyzeIdle

\* A command is dispatched once the previous one has returned its
\* (success, message, intercept) tuple to the host.
\* Invocations are coroutines on one thread: another one runs only while
\* this one is suspended in an await.  From the return of the learning
\* model call to the end of _parse_and_update_expressions_v2 there is none.
LearnRunning == learn.pc \in {"apply", "report"}

CanIssue == ncmd < MaxCmds /\ last = NoResult /\ ~LearnRunning

\* The host takes the returned tuple.
Deliver ==
  /\ last # NoResult
  /\ last' = NoResult
  /\ UNCHANGED <<store, now, ncmd, learn, analyze>>

\* ---------------------------------------------------------------- clock
Tick ==
  /\ now < MaxTime
  /\ now' = now + 1
  /\ UNCHANGED <<store, ncmd, last, learn, analyze>>

\* ------------------------------------------------------- /expr add ...
\* A duplicate check that finds nothing
MatchingNothing(st, c, s, t) == {}

Matching(st, c, s, t) ==
  {i \in Existing(st) :
     st[i].chat_id = c /\ st[i].situation = s /\ st[i].style = t}

\* The initial weight taken as given
InitialCountUnclamped(weight_str) ==
  Float(IF weight_str = "" THEN "1.0" ELSE weight_str)

InitialCount(weight_str) ==
  Clamp(Float(IF weight_str = "" THEN "1.0" ELSE weight_str))

Boosted(r, t) ==
  [r EXCEPT !.count = AddDuplicateBoost(r.count),
            !.last_active_time = t,
            !.create_date = IF r.create_date = NoDate THEN t ELSE r.create_date]

AddExpression(m, situation, style, chat_spec, weight_str, stream) ==
  LET chat_id == TargetChat(chat_spec, stream)
      R(ok, msg, id) ==
        [Result("add", ok, msg, chat_id, id, weight_str)
           EXCEPT !.situation = situation, !.style = style]
      F(msg) == Result("add", FALSE, msg, NoChat, 0, "")
  IN
  /\ CanIssue
  /\ ncmd' = ncmd + 1
  /\ UNCHANGED <<now, learn, analyze>>
  /\ IF ~m THEN
       /\ last' = F(Usage("add"))
       /\ store' = store
     ELSE IF chat_id = NoChat THEN
       /\ last' = F("no_target_chat")
       /\ store' = store
     ELSE IF Matching(store, chat_id, situation, style) # {} THEN
       \* .get() returns one of the matching rows
       \E i \in Matching(store, chat_id, situation, style) :
         /\ store' = Save(store, i, Boosted(store[i], now))
         /\ last' = R(TRUE, "boosted", i)
     ELSE
       /\ NewId(store) \in Ids
       /\ store' = Save(store, NewId(store),
                        Row(chat_id, situation, style,
                            InitialCount(weight_str), now, now))
       /\ last' = R(TRUE, "added", NewId(store))

\* ------------------------------------------------------- /expr del <id>
DeleteExpression(m, id, chat_spec, stream) ==
  LET chat_id == TargetChat(chat_spec, stream)
      R(ok, msg) == Result("del", ok, msg, chat_id, id, "")
      F(msg) == Result("del", FALSE, msg, NoChat, 0, "")
  IN
  /\ CanIssue
  /\ ncmd' = ncmd + 1
  /\ UNCHANGED <<now, learn, analyze>>
  /\ IF ~m THEN
       /\ last' = F(Usage("del"))
       /\ store' = store
     ELSE IF chat_id = NoChat THEN
       /\ last' = F("no_target_chat")
       /\ store' = store
     ELSE IF id \in Existing(store) THEN
       \* Expression.get(Expression.id == int(id_str)): any chat
       /\ store' = DeleteInstance(store, id)
       /\ last' = R(TRUE, "deleted")
     ELSE
       /\ last' = F("not_found")
       /\ store' = store

\* ------------------------------------------- /expr <id> <+/-number>
\* Deletion only below zero
ExhaustedStrict(new_weight) == new_weight < 0

\* if new_weight <= 0: the row is deleted
Exhausted(new_weight) == new_weight <= 0

\* The row is looked up by id alone
InChatAny(st, id, chat_id) == id \in Existing(st)

\* Expression.get((Expression.id == int(id_str)) & (Expression.chat_id == chat_id))
InChat(st, id, chat_id) == id \in Existing(st) /\ st[id].chat_id = chat_id

\* The saved row with last_active_time left as it was
WeightUpdatedStale(r, w, t) ==
  [r EXCEPT !.count = Clamp(w),
            !.create_date = IF r.create_date = NoDate THEN t ELSE r.create_date]

WeightUpdated(r, w, t) ==
  [r EXCEPT !.count = Clamp(w),
            !.last_active_time = t,
            !.create_date = IF r.create_date = NoDate THEN t ELSE r.create_date]

ModifyExpressionWeight(m, id, weight_change_str, chat_spec, stream) ==
  LET chat_id == TargetChat(chat_spec, stream)
      weight_change == Float(weight_change_str)
      R(ok, msg) == Result("weight", ok, msg, chat_id, id, weight_change_str)
      F(msg) == Result("weight", FALSE, msg, NoChat, 0, "")
  IN
  /\ CanIssue
  /\ ncmd' = ncmd + 1
  /\ UNCHANGED <<now, learn, analyze>>
  /\ IF ~m THEN
       /\ last' = F(Usage("weight"))
       /\ store' = store
     ELSE IF chat_id = NoChat THEN
       /\ last' = F("no_target_chat")
       /\ store' = store
     ELSE IF ~InChat(store, id, chat_id) THEN
       /\ last' = Result("weight", FALSE, "not_found", chat_id, id, "")
       /\ store' = store
     ELSE IF Exhausted(store[id].count + weight_change) THEN
       /\ store' = DeleteInstance(store, id)
       /\ last' = R(TRUE, "auto_deleted")
     ELSE
       /\ store' = Save(store, id,
                        WeightUpdated(store[id], store[id].count + weight_change, now))
       /\ last' = R(TRUE, "updated")

\* ------------------------------------------------------ text helpers
\* Strings that the code takes apart are sequences of one-character strings.
Digits == {"0", "1", "2", "3", "4", "5", "6", "7", "8", "9"}

DigitVal(c) ==
  CASE c = "0" -> 0 [] c = "1" -> 1 [] c = "2" -> 2 [] c = "3" -> 3
    [] c = "4" -> 4 [] c = "5" -> 5 [] c = "6" -> 6 [] c = "7" -> 7
    [] c = "8" -> 8 [] c = "9" -> 9

\* str.isdigit(): non-empty and digits only
IsDigitStr(s) == Len(s) > 0 /\ \A k \in 1..Len(s) : s[k] \in Digits

\* int(s) of a digit string
RECURSIVE ToInt(_)
ToInt(s) == IF Len(s) = 0 THEN 0
            ELSE 10 * ToInt(SubSeq(s, 1, Len(s) - 1)) + DigitVal(s[Len(s)])

\* s.strip('[]'): drop every leading and trailing '[' or ']'
RECURSIVE StripBrackets(_)
StripBrackets(s) ==
  IF Len(s) = 0 THEN s
  ELSE IF Head(s) \in {"[", "]"} THEN StripBrackets(Tail(s))
  ELSE IF s[Len(s)] \in {"[", "]"} THEN StripBrackets(SubSeq(s, 1, Len(s) - 1))
  ELSE s

\* s.replace(' ', '')
RemoveSpaces(s) == SelectSeq(s, LAMBDA c : c # " ")

\* s.split(','): always at least one part
RECURSIVE SplitComma(_, _)
SplitComma(s, cur) ==
  IF Len(s) = 0 THEN <<cur>>
  ELSE IF Head(s) = "," THEN <<cur>> \o SplitComma(Tail(s), <<>>)
  ELSE SplitComma(Tail(s), Append(cur, Head(s)))

RECURSIVE DigitParts(_)
DigitParts(parts) ==
  IF Len(parts) = 0 THEN <<>>
  ELSE IF IsDigitStr(Head(parts))
       THEN <<ToInt(Head(parts))>> \o DigitParts(Tail(parts))
       ELSE DigitParts(Tail(parts))

\* The ids of a selected_expressions field such as "[62, 201, 386]"
ParseIdList(sel) ==
  IF Len(sel) = 0 THEN <<>>
  ELSE DigitParts(SplitComma(RemoveSpaces(StripBrackets(sel)), <<>>))

Range(f) == {f[k] : k \in DOMAIN f}

\* ------------------------------------- /expr list [in ..] [page=] [size=]
MaxPageSize == 50
DefaultPageSize == 10

\* page=<n> and size=<n> tokens (digit strings; <<>> when the clause is absent)
PageStrs == { <<>>, <<"0">>, <<"2">> }
SizeStrs == { <<>>, <<"0">>, <<"1">>, <<"2">>, <<"6", "0">> }

\* page = max(1, int(m.group(2) or "1"))
FloorPage(page_str) == Max(1, IF page_str = <<>> THEN 1 ELSE ToInt(page_str))

\* size = max(1, min(50, int(m.group(3) or "10")))
ClampSize(size_str) ==
  Max(1, Min(MaxPageSize, IF size_str = <<>> THEN DefaultPageSize ELSE ToInt(size_str)))

\* The page count rounded down
TotalPagesFloor(total, size) == Max(1, total \div size)

\* total_pages = max(1, (total + size - 1) // size)
TotalPages(total, size) == Max(1, (total + size - 1) \div size)

\* Expression.select().where(Expression.chat_id == chat_id)
InChatIds(st, chat_id) == {i \in Existing(st) : st[i].chat_id = chat_id}

\* order_by(count.desc(), last_active_time.desc()): a goes no later than b
NoLater(st, a, b) ==
  \/ st[a].count > st[b].count
  \/ st[a].count = st[b].count /\ st[a].last_active_time >= st[b].last_active_time

\* The orders the query can give the rows of a chat in: rows that agree in
\* both keys come in an order the database picks.
OrderBy(st, chat_id) ==
  LET S == InChatIds(st, chat_id)
      n == Cardinality(S)
  IN { ord \in [1..n -> S] :
         /\ \A k \in 1..n, l \in 1..n : k # l => ord[k] # ord[l]
         /\ \A k \in 1..n, l \in 1..n : k < l => NoLater(st, ord[k], ord[l]) }

\* .paginate(page, size): LIMIT size OFFSET (page - 1) * size
Paginate(ord, page, size) ==
  SubSeq(ord, (page - 1) * size + 1, Min(page * size, Len(ord)))

ListExpressions(m, chat_spec, page_str, size_str, stream) ==
  LET chat_id == TargetChat(chat_spec, stream)
      size == ClampSize(size_str)
      total == Cardinality(InChatIds(store, chat_id))
      total_pages == TotalPages(total, size)
      page == Min(FloorPage(page_str), total_pages)
      F(msg) == Result("list", FALSE, msg, NoChat, 0, "")
  IN
  /\ CanIssue
  /\ ncmd' = ncmd + 1
  /\ UNCHANGED <<store, now, learn, analyze>>
  /\ IF ~m THEN last' = F(Usage("list"))
     ELSE IF chat_id = NoChat THEN last' = F("no_target_chat")
     ELSE \E ord \in OrderBy(store, chat_id) :
            last' = [Result("list", TRUE, "listed", chat_id, 0, "")
                       EXCEPT !.req = <<page_str, size_str>>,
                              !.head = <<total, page, total_pages>>,
                              !.ids = Paginate(ord, page, size)]

\* ------------------------------------------------------- model choice
\* llm_api.get_available_models(): role -> handle, in the mapping's order
AvailChoices ==
  { <<>>, <<"utils", "chat">>, <<"chat", "x1">>, <<"x2", "x1">> }

\* chat preferred to utils
SelectModelChatFirst(avail) ==
  IF "chat" \in Range(avail) THEN "chat"
  ELSE IF "utils" \in Range(avail) THEN "utils"
  ELSE avail[1]

\* utils, else chat, else the first key of the mapping
SelectModel(avail) ==
  IF "utils" \in Range(avail) THEN "utils"
  ELSE IF "chat" \in Range(avail) THEN "chat"
  ELSE avail[1]

\* ------------------------------------------------------- bot messages
NoMsg == [found |-> FALSE, content |-> "", sel |-> <<>>]
Msg(content, sel) == [found |-> TRUE, content |-> content, sel |-> sel]

SelStrs ==
  { <<>>,
    <<"[", "]">>,
    <<"[", "1", ",", " ", "2", "]">>,
    <<"[", "1", " ", "2", "]">>,
    <<"[", "x", "]">>,
    <<"[", "2", ",", "x", "]">> }

Messages ==
  {NoMsg, Msg("", <<"[", "2", ",", "x", "]">>)} \cup {Msg("hi", x) : x \in SelStrs}

\* ------------------------------------------------ /expr review
\* What becomes of the picture of the report: sent, or replaced by text
\* because it could not be sent or could not be drawn.
ImageOutcomes == {"image", "text_send_failed", "text_no_image"}

\* has_stream: the message has a chat_stream; recent_any: the chat has
\* messages in the last 24 hours; bot_message: the bot's message among them
\* (NoMsg when it sent none).  The command shows, for the message, the ids
\* parsed from its selected_expressions.
ReviewExpressions(has_stream, stream, recent_any, bot_message, image) ==
  LET expr_ids == ParseIdList(bot_message.sel)
      F(msg) == Result("review", FALSE, msg, NoChat, 0, "")
      T(msg) == Result("review", TRUE, msg, stream, 0, "")
  IN
  /\ CanIssue
  /\ ncmd' = ncmd + 1
  /\ UNCHANGED <<store, now, learn, analyze>>
  /\ last' =
       IF ~has_stream THEN F("no_chat_stream")
       ELSE IF stream = NoChat THEN F("no_chat_id")
       ELSE IF ~recent_any THEN T("no_messages")
       ELSE IF ~bot_message.found THEN T("no_bot_messages")
       ELSE IF Len(bot_message.sel) = 0 THEN T("no_records")
       ELSE [T(image) EXCEPT !.ids = expr_ids]

\* ------------------------------------------------ JSON of a response
\* A response text is described by what the decoding steps make of it:
\* whether it has a '{' ... '}' span, whether repair_json + json.loads
\* succeeds on the span, whether json.loads succeeds on it directly.
Decodes(r) == r.span /\ (r.repair \/ r.direct)

TextShapes ==
  { [span |-> FALSE, repair |-> FALSE, direct |-> FALSE],
    [span |-> TRUE, repair |-> FALSE, direct |-> FALSE],
    [span |-> TRUE, repair |-> TRUE, direct |-> FALSE],
    [span |-> TRUE, repair |-> FALSE, direct |-> TRUE],
    [span |-> TRUE, repair |-> TRUE, direct |-> TRUE] }

\* What generate_with_model hands back as the response when success is
\* False: the error text.
ErrTexts == {"timeout", "quota"}

\* The id set is never taken as empty
NothingToAnalyzeNever(expression_ids) == FALSE

\* if not expression_ids: nothing to analyse
NothingToAnalyze(expression_ids) == Len(expression_ids) = 0

\* ------------------------------------------------ /expr learn [...]
\* What the usage-analysis response decodes to: whether it has a
\* "used_expressions" list, and the list's entries.
AnalysisDatas ==
  { [field |-> FALSE, entries |-> <<>>],
    [field |-> TRUE, entries |-> <<>>],
    [field |-> TRUE, entries |-> << [dict |-> TRUE, id |-> <<"1">>] >>],
    [field |-> TRUE, entries |-> << [dict |-> TRUE, id |-> <<"2">>],
                                    [dict |-> TRUE, id |-> <<"a">>] >>],
    [field |-> TRUE, entries |-> << [dict |-> TRUE, id |-> <<"3">>] >>],
    [field |-> TRUE, entries |-> << [dict |-> TRUE, id |-> <<"1">>],
                                    [dict |-> FALSE, id |-> <<>>] >>] }

RECURSIVE IdsOf(_)
IdsOf(entries) ==
  IF Len(entries) = 0 THEN <<>> ELSE <<Head(entries).id>> \o IdsOf(Tail(entries))

\* _parse_analysis_response: the used ids, [] on every failure
ParseAnalysisResponse(text, data) ==
  IF ~Decodes(text) THEN <<>>
  ELSE IF ~data.field THEN <<>>
  ELSE IF \E k \in 1..Len(data.entries) : ~data.entries[k].dict THEN <<>>
  ELSE DigitParts(IdsOf(data.entries))

LearnFail(msg) == Result("learn", FALSE, msg, NoChat, 0, "")
\* f"...失败: {response}": the message quotes the error text
LearnCallFailed(msg, err) == Result("learn", FALSE, msg, NoChat, 0, err)
LearnDone(msg, n) == [Result("learn", TRUE, msg, NoChat, 0, "") EXCEPT !.updated = n]

\* One element of expressions_details: what the row held when the command
\* was dispatched, or the placeholder for an id without a row.
Detail(st, i) ==
  IF i \in Existing(st)
  THEN [id |-> i, situation |-> st[i].situation, style |-> st[i].style,
        count |-> st[i].count]
  ELSE [id |-> i, situation |-> "unknown", style |-> "missing", count |-> 0]

LearnStart(m, stream, bot_message, avail) ==
  LET expression_ids == ParseIdList(bot_message.sel)
      Return(r) == last' = r /\ learn' = learn
  IN
  /\ CanIssue
  /\ learn.pc = "idle"
  /\ ncmd' = ncmd + 1
  /\ UNCHANGED <<store, now, analyze>>
  /\ IF ~m THEN Return(LearnFail(Usage("learn")))
     ELSE IF stream = NoChat THEN Return(LearnFail("no_chat_id"))
     ELSE IF ~bot_message.found THEN Return(LearnFail("no_bot_message"))
     ELSE IF bot_message.content = "" THEN Return(LearnFail("empty_content"))
     ELSE IF NothingToAnalyze(expression_ids) THEN Return(LearnDone("no_expressions", 0))
     ELSE IF Len(avail) = 0 THEN Return(LearnFail("no_model"))
     ELSE
       /\ learn' = [learn EXCEPT !.pc = "analysis", !.ids = expression_ids,
                                 !.details = [k \in 1..Len(expression_ids) |->
                                                Detail(store, expression_ids[k])],
                                 !.avail = avail,
                                 !.model = SelectModel(avail)]
       /\ last' = last

\* The usage-analysis call issued again, on another handle, after a failure
LearnAnalysisReturnRetrying(success, text, data, avail, err) ==
  LET used_expressions == ParseAnalysisResponse(text, data)
      actual_used == SelectSeq(learn.ids, LAMBDA i : i \in Range(used_expressions))
      Return(r) == last' = r /\ learn' = LearnIdle
  IN
  /\ learn.pc = "analysis"
  /\ last = NoResult
  /\ UNCHANGED <<store, now, ncmd, analyze>>
  /\ IF ~success THEN
       /\ learn' = [learn EXCEPT !.model = "retry"]
       /\ last' = last
     ELSE IF Len(used_expressions) = 0 THEN Return(LearnDone("none_used", 0))
     ELSE IF Len(avail) = 0 THEN Return(LearnFail("no_model"))
     ELSE
       /\ learn' = [learn EXCEPT !.pc = "learning", !.ids = <<>>,
                                 !.details = SelectSeq(learn.details,
                                    LAMBDA d : d.id \in Range(used_expressions)),
                                 !.used = actual_used,
                                 !.avail = avail,
                                 !.model = SelectModel(avail)]
       /\ last' = last

\* llm_api.generate_with_model returns for the usage analysis
LearnAnalysisReturn(success, text, data, avail, err) ==
  LET used_expressions == ParseAnalysisResponse(text, data)
      actual_used == SelectSeq(learn.ids, LAMBDA i : i \in Range(used_expressions))
      Return(r) == last' = r /\ learn' = LearnIdle
  IN
  /\ learn.pc = "analysis"
  /\ last = NoResult
  /\ UNCHANGED <<store, now, ncmd, analyze>>
  /\ IF ~success THEN Return(LearnCallFailed("analysis_failed", err))
     ELSE IF Len(used_expressions) = 0 THEN Return(LearnDone("none_used", 0))
     ELSE IF Len(avail) = 0 THEN Return(LearnFail("no_model"))
     ELSE
       /\ learn' = [learn EXCEPT !.pc = "learning", !.ids = <<>>,
                                 !.details = SelectSeq(learn.details,
                                    LAMBDA d : d.id \in Range(used_expressions)),
                                 !.used = actual_used,
                                 !.avail = avail,
                                 !.model = SelectModel(avail)]
       /\ last' = last

\* llm_api.generate_with_model returns for the learning call; on success
\* _parse_and_update_expressions_v2 starts: it decodes the response and
\* enters the loop when the data has an "expressions" list of n entries.
LearnLearningReturn(success, text, field, n, err) ==
  /\ learn.pc = "learning"
  /\ last = NoResult
  /\ UNCHANGED <<store, now, ncmd, analyze>>
  /\ IF ~success THEN
       /\ last' = LearnCallFailed("llm_failed", err)
       /\ learn' = LearnIdle
     ELSE IF ~Decodes(text) THEN
       \* return 0
       /\ learn' = [learn EXCEPT !.pc = "report", !.avail = <<>>, !.model = "",
                                 !.decoded = FALSE, !.rem = 0, !.count = 0]
       /\ last' = last
     ELSE IF ~field THEN
       /\ learn' = [learn EXCEPT !.pc = "report", !.avail = <<>>, !.model = "",
                                 !.decoded = TRUE, !.rem = 0, !.count = 0]
       /\ last' = last
     ELSE
       /\ learn' = [learn EXCEPT !.pc = "apply", !.avail = <<>>, !.model = "",
                                 !.decoded = TRUE, !.rem = n, !.count = 0]
       /\ last' = last

\* The entries a learning response can hold: something that is not an
\* object, or an object with an id and a new_situation.  id is str(expr_id),
\* <<>> for an entry without "id" or with a falsy one; ns is "" when
\* new_situation is absent or empty.
Entries ==
  {NoEntry} \cup [dict : {TRUE}, id : {<<>>, <<"a">>}, ns : {""}]
            \cup [dict : {TRUE}, id : {<<"1">>, <<"2">>}, ns : {"", "s1", "s2"}]

\* The entry is passed over with `continue`: no id, an id that is not a
\* digit string, or no row with that id.
EntrySkipped(st, e) ==
  \/ e.id = <<>>
  \/ ~IsDigitStr(e.id)
  \/ ToInt(e.id) \notin Existing(st)

\* A revision that takes 0.5 off instead
SituationRevisionPenalty(w) == Clamp(w - SitBoost)

\* applySituationRevisionBoost: max(0.01, min(5.0, expr.count + 0.5))
SituationRevisionBoost(w) == Clamp(w + SitBoost)

\* The loop body with the weight change left out
RevisedNoBoost(r, new_situation, t) ==
  IF new_situation # "" /\ new_situation # r.situation
  THEN [r EXCEPT !.situation = new_situation, !.last_active_time = t]
  ELSE [r EXCEPT !.last_active_time = t]

\* The loop body with the boost given to every entry that carries a
\* situation, whether or not the row has it already
RevisedAlwaysBoosting(r, new_situation, t) ==
  IF new_situation # ""
  THEN [r EXCEPT !.situation = new_situation,
                 !.count = SituationRevisionBoost(r.count),
                 !.last_active_time = t]
  ELSE [r EXCEPT !.last_active_time = t]

\* The loop body with the boost put on the default weight 1.0 instead of
\* the weight the row has
RevisedForgetting(r, new_situation, t) ==
  IF new_situation # "" /\ new_situation # r.situation
  THEN [r EXCEPT !.situation = new_situation,
                 !.count = SituationRevisionBoost(Float("1.0")),
                 !.last_active_time = t]
  ELSE [r EXCEPT !.last_active_time = t]

\* The row as the loop body saves it
Revised(r, new_situation, t) ==
  IF new_situation # "" /\ new_situation # r.situation
  THEN [r EXCEPT !.situation = new_situation,
                 !.count = SituationRevisionBoost(r.count),
                 !.last_active_time = t]
  ELSE [r EXCEPT !.last_active_time = t]

\* One iteration of the loop over data["expressions"]
LearnApplyEntry(e) ==
  /\ learn.pc = "apply"
  /\ learn.rem > 0
  /\ UNCHANGED <<now, ncmd, last, analyze>>
  /\ IF ~e.dict THEN
       \* expr_data.get raises; so does the handler's own expr_data.get, and
       \* the outer handler returns 0
       /\ learn' = [learn EXCEPT !.pc = "report", !.entry = e, !.count = 0]
       /\ store' = store
     ELSE IF EntrySkipped(store, e) THEN
       /\ learn' = [learn EXCEPT !.rem = @ - 1, !.entry = e]
       /\ store' = store
     ELSE
       /\ store' = Save(store, ToInt(e.id), Revised(store[ToInt(e.id)], e.ns, now))
       /\ learn' = [learn EXCEPT !.rem = @ - 1, !.entry = e, !.count = @ + 1]

\* The whole loop over data["expressions"] on store st at time t: the rows
\* as it leaves them.  An entry that is not a dict ends the loop; the rows
\* saved before it stay saved.
RECURSIVE ApplyAll(_, _, _)
ApplyAll(st, es, t) ==
  IF es = <<>> THEN st
  ELSE IF ~Head(es).dict THEN st
  ELSE IF EntrySkipped(st, Head(es)) THEN ApplyAll(st, Tail(es), t)
  ELSE ApplyAll(Save(st, ToInt(Head(es).id),
                     Revised(st[ToInt(Head(es).id)], Head(es).ns, t)),
                Tail(es), t)

\* _parse_and_update_expressions_v2 has returned updated_count; execute
\* builds its message and returns (True, msg, True).
LearnReport ==
  /\ \/ learn.pc = "report"
     \/ learn.pc = "apply" /\ learn.rem = 0
  /\ last' = LearnDone(IF learn.count > 0 THEN "learned" ELSE "nothing_updated",
                       learn.count)
  /\ learn' = LearnIdle
  /\ UNCHANGED <<store, now, ncmd, analyze>>

\* ------------------------------------------------ /expr msg <id>
AnalyzeFail(msg) == Result("msg", FALSE, msg, NoChat, 0, "")
AnalyzeCallFailed(err) == Result("msg", FALSE, "llm_failed", NoChat, 0, err)
AnalyzeDone(msg) == Result("msg", TRUE, msg, NoChat, 0, "")

AnalyzeStart(m, message_record, avail) ==
  LET expression_ids == ParseIdList(message_record.sel)
      Return(r) == last' = r /\ analyze' = analyze
  IN
  /\ CanIssue
  /\ analyze.pc = "idle"
  /\ ncmd' = ncmd + 1
  /\ UNCHANGED <<store, now, learn>>
  /\ IF ~m THEN Return(AnalyzeFail(Usage("msg")))
     ELSE IF ~message_record.found THEN Return(AnalyzeFail("not_found"))
     ELSE IF message_record.content = "" THEN Return(AnalyzeFail("empty_content"))
     ELSE IF NothingToAnalyze(expression_ids) THEN Return(AnalyzeDone("no_expressions"))
     ELSE IF Len(avail) = 0 THEN Return(AnalyzeFail("no_model"))
     ELSE
       /\ analyze' = [pc |-> "call", avail |-> avail, model |-> SelectModel(avail)]
       /\ last' = last

\* What json.loads and repair_json make of the whole response text
\* (this command takes no '{' ... '}' span): direct: json.loads succeeds;
\* repair: json.loads(repair_json(text)) succeeds; object: the decoded
\* value is a JSON object.
AnalyzeTexts == [direct : BOOLEAN, repair : BOOLEAN, object : BOOLEAN]

\* The return of the model call, marking every row as just used
AnalyzeReturnTouching(success, text, err) ==
  /\ analyze.pc = "call"
  /\ last = NoResult
  /\ ~LearnRunning
  /\ analyze' = AnalyzeIdle
  /\ store' = [i \in DOMAIN store |-> [store[i] EXCEPT !.last_active_time = now]]
  /\ UNCHANGED <<now, ncmd, learn>>
  /\ last' = IF success /\ text.direct /\ text.object
             THEN AnalyzeDone("analysis") ELSE AnalyzeFail("json_failed")

AnalyzeReturn(success, text, err) ==
  /\ analyze.pc = "call"
  /\ last = NoResult
  /\ ~LearnRunning
  /\ analyze' = AnalyzeIdle
  /\ UNCHANGED <<store, now, ncmd, learn>>
  /\ last' =
       IF ~success THEN AnalyzeCallFailed(err)
       ELSE IF text.direct THEN
         \* .get on a value that is not an object raises into the outer handler
         IF text.object THEN AnalyzeDone("analysis") ELSE AnalyzeFail("error")
       ELSE IF text.repair /\ text.object THEN AnalyzeDone("analysis_repaired")
       ELSE AnalyzeFail("json_failed")

Next ==
  \/ Tick
  \/ Deliver
  \/ \E s \in Situations, t \in Styles, c \in ChatSpecs,
        w \in WeightStrs, sid \in Streams :
       AddExpression(TRUE, s, t, c, w, sid)
  \/ AddExpression(FALSE, "", "", "", "", NoChat)
  \/ \E c \in ChatSpecs, p \in PageStrs, z \in SizeStrs, sid \in Streams :
       ListExpressions(TRUE, c, p, z, sid)
  \/ ListExpressions(FALSE, "", <<>>, <<>>, NoChat)
  \/ \E i \in Ids, c \in ChatSpecs, sid \in Streams :
       DeleteExpression(TRUE, i, c, sid)
  \/ DeleteExpression(FALSE, 0, "", NoChat)
  \/ \E i \in Ids, d \in DeltaStrs, c \in ChatSpecs, sid \in Streams :
       ModifyExpressionWeight(TRUE, i, d, c, sid)
  \/ ModifyExpressionWeight(FALSE, 0, "+4.5", "", NoChat)
  \/ \E hs \in BOOLEAN, sid \in Streams, ra \in BOOLEAN, bm \in Messages,
        im \in ImageOutcomes :
       ReviewExpressions(hs, sid, ra, bm, im)
  \/ \E sid \in Streams, bm \in Messages, av \in AvailChoices :
       LearnStart(TRUE, sid, bm, av)
  \/ LearnStart(FALSE, NoChat, NoMsg, <<>>)
  \/ \E ok \in BOOLEAN, tx \in TextShapes, d \in AnalysisDatas,
        av \in AvailChoices, er \in ErrTexts :
       LearnAnalysisReturn(ok, tx, d, av, er)
  \/ \E ok \in BOOLEAN, tx \in TextShapes, f \in BOOLEAN, n \in 0..MaxEntries,
        er \in ErrTexts :
       LearnLearningReturn(ok, tx, f, n, er)
  \/ \E e \in Entries : LearnApplyEntry(e)
  \/ LearnReport
  \/ \E mr \in Messages, av \in AvailChoices : AnalyzeStart(TRUE, mr, av)
  \/ AnalyzeStart(FALSE, NoMsg, <<>>)
  \/ \E ok \in BOOLEAN, tx \in AnalyzeTexts, er \in ErrTexts : AnalyzeReturn(ok, tx, er)

Spec == Init /\ [][Next]_vars

\* ================================================================ claims
InRange(w) == WMin <= w /\ w <= WMax

\* A step in which a command of the given kind returns
Returns(cmd) == last = NoResult /\ last' # NoResult /\ last'.cmd = cmd

\* Every row but row i is the same before and after the step
OthersUnchanged(i) ==
  \A j \in (DOMAIN store \cup DOMAIN store') \ {i} :
    j \in DOMAIN store /\ j \in DOMAIN store' /\ store'[j] = store[j]

\* C1: after any sequence of add, weight, del and learn commands every row
\* of the store has 0.01 <= weight <= 5.0 (a weight out of that range is
\* never written; a row whose weight would be <= 0 is gone).
C1_WeightsInRange == \A i \in DOMAIN store : InRange(store[i].count)

\* C1 witness: a weight command has just written a weight that had to be
\* raised to 0.01.
C1_Witness ==
  /\ last.cmd = "weight" /\ last.msg = "updated" /\ last.arg = "-0.995"
  /\ last.id \in DOMAIN store /\ store[last.id].count = WMin

C3_AddDuplicate ==
  [][ ( /\ Returns("add")
        /\ last'.chat # NoChat
        /\ Matching(store, last'.chat, last'.situation, last'.style) # {} )
      => /\ DOMAIN store' = DOMAIN store
         /\ last'.id \in Matching(store, last'.chat, last'.situation, last'.style)
         /\ store'[last'.id].count =
              (IF store[last'.id].count + DupBoost > WMax THEN WMax
               ELSE store[last'.id].count + DupBoost)
         /\ OthersUnchanged(last'.id)
    ]_vars

\* C3 witness: a duplicate add carrying w=7.5 has raised 4.95 to the cap.
C3_Witness ==
  /\ last.cmd = "add" /\ last.msg = "boosted" /\ last.arg = "7.5"
  /\ store[last.id].count = WMax

\* C4: an add whose (chat, situation, style) is not in the store creates
\* exactly one row, with that chat, situation and style and with the given
\* weight clamped to [0.01, 5.0] (1.0 without w=); no other row changes.
C4_AddNew ==
  [][ ( /\ Returns("add")
        /\ last'.chat # NoChat
        /\ Matching(store, last'.chat, last'.situation, last'.style) = {} )
      => LET i == last'.id
             given == IF last'.arg = "" THEN 1000 ELSE Float(last'.arg)
         IN /\ i \notin DOMAIN store
            /\ DOMAIN store' = DOMAIN store \cup {i}
            /\ store'[i].chat_id = last'.chat
            /\ store'[i].situation = last'.situation
            /\ store'[i].style = last'.style
            /\ store'[i].count = (IF given < WMin THEN WMin
                                  ELSE IF given > WMax THEN WMax ELSE given)
            /\ OthersUnchanged(i)
    ]_vars

\* C4 witness: an add without w= has created a row of weight 1.0 next to
\* the rows that were there.
C4_Witness ==
  /\ last.cmd = "add" /\ last.msg = "added" /\ last.arg = ""
  /\ store[last.id].count = 1000
  /\ Cardinality(DOMAIN store) >= 2


\* ------------------------------------------------ the learning loop
\* A step that is one iteration of the loop over the response's entries;
\* learn'.entry is the entry it handled.
LoopStep == learn.pc = "apply" /\ learn.rem > 0 /\ learn' # learn

\* The entry names a row that exists when the loop reaches it
NamesRow(e) == e.dict /\ IsDigitStr(e.id) /\ ToInt(e.id) \in DOMAIN store

\* C5: in the learning loop an entry whose new_situation equals the row's
\* situation gives no weight boost and does not add to updated_count.
C5_SameSituationNotCounted ==
  [][ ( /\ LoopStep
        /\ NamesRow(learn'.entry)
        /\ learn'.entry.ns = store[ToInt(learn'.entry.id)].situation )
      => /\ store'[ToInt(learn'.entry.id)].count = store[ToInt(learn'.entry.id)].count
         /\ learn'.count = learn.count
    ]_vars

\* C6: in the learning loop an entry that names an existing row and has a
\* non-empty new_situation other than the row's situation sets the
\* situation to it, sets the weight to max(0.01, min(5.0, w + 0.5)) and
\* adds exactly 1 to updated_count.
C6_SituationRevision ==
  [][ ( /\ LoopStep
        /\ NamesRow(learn'.entry)
        /\ learn'.entry.ns # ""
        /\ learn'.entry.ns # store[ToInt(learn'.entry.id)].situation )
      => LET i == ToInt(learn'.entry.id)
             sum == store[i].count + 500
         IN /\ i \in DOMAIN store'
            /\ store'[i].situation = learn'.entry.ns
            /\ store'[i].count = (IF sum < WMin THEN WMin
                                  ELSE IF sum > WMax THEN WMax ELSE sum)
            /\ learn'.count = learn.count + 1
    ]_vars

\* C6 witness: the loop has just rewritten row 2 (4.95, "s2") to "s1"; its
\* weight stopped at 5.0; the write is counted.
C6_Witness ==
  /\ learn.pc = "apply"
  /\ learn.entry = [dict |-> TRUE, id |-> <<"2">>, ns |-> "s1"]
  /\ learn.count = 1
  /\ 2 \in DOMAIN store /\ store[2].situation = "s1" /\ store[2].count = WMax

\* C7: in the learning loop an entry that names an existing row but has no
\* usable new_situation writes nothing to the row (last_active_time
\* included) and does not add to updated_count.
C7_NoSituationUnmutated ==
  [][ ( /\ LoopStep
        /\ NamesRow(learn'.entry)
        /\ learn'.entry.ns = "" )
      => /\ store' = store
         /\ learn'.count = learn.count
    ]_vars

\* C8: in the learning loop an entry without an id, with an id that is not
\* numeric, or with the id of no row is passed over: the store and
\* updated_count are as before and the loop goes on with the entries left,
\* as if the entry had not been there.
C8_SkippedEntry ==
  [][ ( /\ LoopStep
        /\ \/ learn'.entry.id = <<>>
           \/ ~IsDigitStr(learn'.entry.id)
           \/ ToInt(learn'.entry.id) \notin DOMAIN store )
      => /\ store' = store
         /\ learn'.count = learn.count
         /\ learn'.pc = "apply"
         /\ learn'.rem = learn.rem - 1
    ]_vars

\* ------------------------------------------------ /expr msg
\* A step of the msg command: its dispatch, or the return of its model call
MsgStep == analyze' # analyze \/ Returns("msg")

\* C9: no step of the msg command changes the store: the same rows with
\* the same fields before and after, whatever the input and the response.
C9_MsgReadOnly == [][ MsgStep => store' = store ]_vars

\* C9 witness: a msg command has gone through its model call and returned
\* its analysis while the store holds rows.
C9_Witness ==
  /\ last.cmd = "msg" /\ last.ok /\ last.msg \in {"analysis", "analysis_repaired"}
  /\ DOMAIN store # {}

\* C10: when the response holds no recoverable JSON (no '{' ... '}' span, or
\* repair and direct parse both fail) learn and msg return failure with the
\* malformed-response message, and no row is changed.
C10_MalformedResponseFails ==
  [][ /\ ( Returns("learn") /\ learn.pc = "report" /\ ~learn.decoded )
         => ( ~last'.ok /\ last'.msg = "json_failed" /\ store' = store )
      /\ \A tx \in AnalyzeTexts :
           ( AnalyzeReturn(TRUE, tx, "timeout") /\ ~tx.direct /\ ~tx.repair )
           => ( ~last'.ok /\ last'.msg = "json_failed" /\ store' = store )
    ]_vars

\* ------------------------------------------------ model calls
\* The step returns failure with the given message quoting the given error
\* text, and leaves the store as it was
FailsQuoting(msg, er) ==
  ~last'.ok /\ last'.msg = msg /\ last'.arg = er /\ store' = store

\* When success is False the response is the error text: there is no
\* response text and no data decoded from one.
NoText == [span |-> FALSE, repair |-> FALSE, direct |-> FALSE]
NoData == [field |-> FALSE, entries |-> <<>>]
NoAnalyzeText == [direct |-> FALSE, repair |-> FALSE, object |-> FALSE]

\* C11: a failed model call is not retried.  In one invocation the
\* usage-analysis call is issued only at dispatch, the learning call only on
\* the return of the usage-analysis call, the msg call only at dispatch; and
\* when a call returns failure the command returns failure with that
\* stage's message quoting the model's error text, is over (no call in
\* flight) and has changed no row.
C11_FailedCallNotRetried ==
  [][ /\ (learn' # learn /\ learn'.pc = "analysis") => learn.pc = "idle"
      /\ (learn' # learn /\ learn'.pc = "learning") => learn.pc = "analysis"
      /\ (analyze' # analyze /\ analyze'.pc = "call") => analyze.pc = "idle"
      /\ \A er \in ErrTexts :
           /\ LearnAnalysisReturn(FALSE, NoText, NoData, <<>>, er)
              => FailsQuoting("analysis_failed", er) /\ learn'.pc = "idle"
           /\ LearnLearningReturn(FALSE, NoText, FALSE, 0, er)
              => FailsQuoting("llm_failed", er) /\ learn'.pc = "idle"
           /\ AnalyzeReturn(FALSE, NoAnalyzeText, er)
              => /\ FailsQuoting("llm_failed", er) /\ last'.cmd = "msg"
                 /\ analyze'.pc = "idle"
    ]_vars

\* C11 witness: the learning call of a learn command has failed with
\* "quota", after its usage-analysis call had succeeded; the command has
\* returned and the store holds rows.
C11_Witness ==
  /\ last.cmd = "learn" /\ ~last.ok /\ last.msg = "llm_failed" /\ last.arg = "quota"
  /\ learn.pc = "idle"
  /\ DOMAIN store # {}

\* The handle the preference list gives for a non-empty mapping
PreferredHandle(av) ==
  IF \E k \in 1..Len(av) : av[k] = "utils" THEN "utils"
  ELSE IF \E k \in 1..Len(av) : av[k] = "chat" THEN "chat"
  ELSE Head(av)

\* A message a learn or msg command takes as far as choosing a model: it
\* is there, has content and has ids.  A usage-analysis response that
\* takes learn as far as choosing the model of its learning call: it
\* decodes and names a used id.
MsgWithIds == Msg("hi", <<"[", "1", ",", " ", "2", "]">>)
GoodText == [span |-> TRUE, repair |-> TRUE, direct |-> TRUE]
UsedOne == [field |-> TRUE, entries |-> << [dict |-> TRUE, id |-> <<"1">>] >>]

\* The step returns failure with the no-model message, with no row changed
\* and with no call begun: its invocation is over, the other one is where
\* it was
FailsNoModel ==
  /\ ~last'.ok /\ last'.msg = "no_model"
  /\ \/ last'.cmd = "learn" /\ learn'.pc = "idle" /\ analyze' = analyze
     \/ last'.cmd = "msg" /\ analyze'.pc = "idle" /\ learn' = learn
  /\ store' = store

\* C12: every model call is made on the handle of role utils when the
\* mapping of available handles has it, else on that of chat, else on the
\* first handle of the mapping; when the mapping is empty the command
\* returns failure with the no-model message, begins no call and changes
\* no row.
C12_ModelChoice ==
  [][ /\ (learn' # learn /\ learn'.pc \in {"analysis", "learning"})
         => learn'.avail # <<>> /\ learn'.model = PreferredHandle(learn'.avail)
      /\ (analyze' # analyze /\ analyze'.pc = "call")
         => analyze'.avail # <<>> /\ analyze'.model = PreferredHandle(analyze'.avail)
      /\ LearnStart(TRUE, "c1", MsgWithIds, <<>>) => FailsNoModel
      /\ LearnAnalysisReturn(TRUE, GoodText, UsedOne, <<>>, "timeout") => FailsNoModel
      /\ AnalyzeStart(TRUE, MsgWithIds, <<>>) => FailsNoModel
    ]_vars

\* C12 witness: with neither utils nor chat available the learning call of
\* a learn command is in flight on the first handle of the mapping.
C12_Witness ==
  learn.pc = "learning" /\ learn.avail = <<"x2", "x1">> /\ learn.model = "x2"

\* ------------------------------------------------ nothing to analyse
\* selected_expressions fields that hold no id: absent, an empty list, a
\* list of something that is not a number
SelsWithoutIds == { <<>>, <<"[", "]">>, <<"[", "x", "]">> }

\* C13: when the selected_expressions field of the analysed message (which
\* is there and has content) gives no id, learn and msg return success with
\* the nothing-to-analyse message; no model call is begun, although handles
\* are available, and no row is changed.
C13_NothingToAnalyze ==
  [][ \A sel \in SelsWithoutIds :
        /\ LearnStart(TRUE, "c1", Msg("hi", sel), <<"utils", "chat">>)
           => /\ last'.cmd = "learn" /\ last'.ok /\ last'.msg = "no_expressions"
              /\ learn'.pc = "idle" /\ store' = store
        /\ AnalyzeStart(TRUE, Msg("hi", sel), <<"utils", "chat">>)
           => /\ last'.cmd = "msg" /\ last'.ok /\ last'.msg = "no_expressions"
              /\ analyze'.pc = "idle" /\ store' = store
    ]_vars

\* C13 witness: a learn command has returned the nothing-to-analyse result
\* while the store holds rows and no call is in flight.
C13_Witness ==
  /\ last.cmd = "learn" /\ last.ok /\ last.msg = "no_expressions"
  /\ learn.pc = "idle" /\ DOMAIN store # {}

\* ------------------------------------------------ bracketed id lists
\* The ids a selected_expressions field stands for: the numbers of a
\* well-formed list, in order; of a list with a token that is no number,
\* the numbers of its other tokens; none for an empty list and for a
\* field with no token that is a pure digit sequence ("1 2" is not one).
ListedIds(sel) ==
  CASE sel = <<"[", "1", ",", " ", "2", "]">> -> <<1, 2>>
    [] sel = <<"[", "2", ",", "x", "]">> -> <<2>>
    [] OTHER -> <<>>

\* C14: parsing a bracketed id list gives the integers of a well-formed
\* list in order, and the empty list for "[]" and for a malformed string,
\* tokens that are not pure digit sequences being dropped: the review
\* command shows exactly those ids, and learn goes on with exactly those
\* ids, or ends with nothing to analyse when there are none.
C14_BracketedIdList ==
  [][ \A sel \in SelStrs \ {<<>>} :
        /\ ReviewExpressions(TRUE, "c1", TRUE, Msg("hi", sel), "image")
           => last'.ids = ListedIds(sel)
        /\ LearnStart(TRUE, "c1", Msg("hi", sel), <<"utils", "chat">>)
           => IF ListedIds(sel) = <<>>
              THEN last'.msg = "no_expressions"
              ELSE learn'.pc = "analysis" /\ learn'.ids = ListedIds(sel)
    ]_vars

\* ------------------------------------------------ /expr list
\* The rows of a chat, and the orders that put them by weight descending,
\* rows of equal weight by last_active_time descending
RowsOf(chat) == {i \in DOMAIN store : store[i].chat_id = chat}

RankedOrders(chat) ==
  { ord \in [1..Cardinality(RowsOf(chat)) -> RowsOf(chat)] :
      /\ \A i \in RowsOf(chat) : \E k \in DOMAIN ord : ord[k] = i
      /\ \A k \in DOMAIN ord : k > 1 =>
           \/ store[ord[k - 1]].count > store[ord[k]].count
           \/ /\ store[ord[k - 1]].count = store[ord[k]].count
              /\ store[ord[k - 1]].last_active_time >= store[ord[k]].last_active_time }

\* The page and size a list command asks for: page floored at 1, size
\* within [1, 50]; 1 and 10 when the clause is absent
AskedPage(page_str) ==
  IF page_str = <<>> \/ ToInt(page_str) < 1 THEN 1 ELSE ToInt(page_str)
AskedSize(size_str) ==
  IF size_str = <<>> THEN 10
  ELSE IF ToInt(size_str) < 1 THEN 1
  ELSE IF ToInt(size_str) > 50 THEN 50 ELSE ToInt(size_str)

\* max(1, ceil(n / s))
PageCount(n, s) == CHOOSE k \in 1..(n + 1) : k * s >= n /\ (k = 1 \/ (k - 1) * s < n)

\* Rows (pg - 1) * s + 1 .. pg * s of an order
PageOf(ord, pg, s) ==
  [k \in 1..(IF Len(ord) >= pg * s THEN s
              ELSE IF Len(ord) > (pg - 1) * s THEN Len(ord) - (pg - 1) * s
              ELSE 0) |-> ord[(pg - 1) * s + k]]

\* A listing of 25 rows asked for page 1 in pages of 10: 3 pages, 10 rows
TwentyFive == [k \in 1..25 |-> k]
ListOfTwentyFive ==
  /\ TotalPages(25, ClampSize(<<"1", "0">>)) = 3
  /\ Paginate(TwentyFive, Min(FloorPage(<<"1">>), 3), ClampSize(<<"1", "0">>))
       = [k \in 1..10 |-> k]

\* What a successful list command shows when the page shown is pg(p, pages)
ListShows(pg(_, _)) ==
  LET chat == last'.chat
      n == Cardinality(RowsOf(chat))
      s == AskedSize(last'.req[2])
      pages == PageCount(n, s)
      page == pg(AskedPage(last'.req[1]), pages)
  IN /\ last'.head[1] = n
     /\ last'.head[3] = pages
     /\ \E ord \in RankedOrders(chat) : last'.ids = PageOf(ord, page, s)
     /\ Len(last'.ids) <= s
     /\ store' = store

PageAsked(p, pages) == p
PageCapped(p, pages) == IF p > pages THEN pages ELSE p

\* C15 as stated: a list command for a chat of N rows with page p and size
\* s (p floored at 1, s within [1, 50]) reports total N and max(1,
\* ceil(N / s)) pages and shows exactly the rows of page p of the chat's
\* rows by weight descending, then last_active_time descending (10 rows
\* and 3 pages for N = 25, p = 1, s = 10); the store is as before.
C15_ListPageAsStated ==
  [][ (Returns("list") /\ last'.ok) => (ListShows(PageAsked) /\ ListOfTwentyFive) ]_vars

\* C15 amended: the same, the page shown being page min(p, page count): a
\* page beyond the last one shows the last page.
C15_ListPage ==
  [][ (Returns("list") /\ last'.ok) => (ListShows(PageCapped) /\ ListOfTwentyFive) ]_vars

\* C15 witness: a chat of two rows listed at page=2 size=1: total 2, page 2
\* of 2, and the row shown is the lighter one.
C15_Witness ==
  /\ last.cmd = "list" /\ last.ok /\ last.req = << <<"2">>, <<"1">> >>
  /\ last.head = <<2, 2, 2>> /\ Len(last.ids) = 1
  /\ \A i \in DOMAIN store :
       store[i].chat_id = last.chat => store[i].count >= store[last.ids[1]].count

\* ------------------------------------------------ the target chat
\* No row of the chat is created, changed or deleted by the step
ChatUntouched(chat) ==
  /\ \A j \in DOMAIN store :
       store[j].chat_id = chat => j \in DOMAIN store' /\ store'[j] = store[j]
  /\ \A j \in DOMAIN store' :
       store'[j].chat_id = chat => j \in DOMAIN store

\* C16: the chat a command was issued from is the target only when the
\* command carries no chat token: an add, del or weight command issued
\* from chat c1 with the token "bad", which resolves to no chat, creates,
\* changes and deletes no row of c1.
C16_ExplicitChatNoFallback ==
  [][ /\ Returns("add") =>
           \A s \in Situations, t \in Styles, w \in WeightStrs :
             AddExpression(TRUE, s, t, "bad", w, "c1") => ChatUntouched("c1")
      /\ Returns("del") =>
           \A i \in Ids :
             DeleteExpression(TRUE, i, "bad", "c1") => ChatUntouched("c1")
      /\ Returns("weight") =>
           \A i \in Ids, d \in DeltaStrs :
             ModifyExpressionWeight(TRUE, i, d, "bad", "c1") => ChatUntouched("c1")
    ]_vars

\* The step returns the no-target-chat failure of the command and leaves
\* the store as it was
FailsNoTargetChat(cmd) ==
  last'.cmd = cmd /\ ~last'.ok /\ last'.msg = "no_target_chat" /\ store' = store

\* C17: an add, list, del or weight command whose chat token resolves to
\* no chat (absent, or "bad"), issued where no chat stream id is to be had,
\* returns failure with the no-target-chat message; the store is as before.
C17_NoTargetChat ==
  [][ \A c \in {"", "bad"} :
        /\ Returns("add") =>
             \A s \in Situations, t \in Styles, w \in WeightStrs :
               AddExpression(TRUE, s, t, c, w, NoChat) => FailsNoTargetChat("add")
        /\ Returns("list") =>
             \A p \in PageStrs, z \in SizeStrs :
               ListExpressions(TRUE, c, p, z, NoChat) => FailsNoTargetChat("list")
        /\ Returns("del") =>
             \A i \in Ids :
               DeleteExpression(TRUE, i, c, NoChat) => FailsNoTargetChat("del")
        /\ Returns("weight") =>
             \A i \in Ids, d \in DeltaStrs :
               ModifyExpressionWeight(TRUE, i, d, c, NoChat) => FailsNoTargetChat("weight")
    ]_vars

\* C17 witness: a weight command has failed for want of a target chat
\* while the store holds rows.
C17_Witness ==
  /\ last.cmd = "weight" /\ ~last.ok /\ last.msg = "no_target_chat"
  /\ DOMAIN store # {}

\* ------------------------------------------------ no match
\* The step returns failure with the given usage text and leaves the store
\* as it was
FailsWithUsage(cmd, usage) ==
  last'.cmd = cmd /\ ~last'.ok /\ last'.msg = usage /\ store' = store

FailsNotFound(cmd) ==
  last'.cmd = cmd /\ ~last'.ok /\ last'.msg = "not_found" /\ store' = store

\* The chat a reference stands for: a chat id itself, the chat of a
\* platform:id:type triple, the issuing chat when there is no token
StandsFor(c, sid) ==
  CASE c = "c2" -> "c2"
    [] c = "qq:1:group" -> "c1"
    [] c = "" -> sid

\* C19: a del command with the id of no row, a weight command with an id
\* that is no row of the target chat (no row at all, or a row of another
\* chat), and a msg command with the id of no message return failure with
\* the not-found message; every row is as before.
C19_NotFound ==
  [][ /\ Returns("del") =>
           \A i \in Ids \ DOMAIN store, c \in {"", "c2", "qq:1:group"}, sid \in Streams :
             (StandsFor(c, sid) # NoChat /\ DeleteExpression(TRUE, i, c, sid))
             => FailsNotFound("del")
      /\ ( /\ Returns("weight")
           /\ last'.chat # NoChat
           /\ ~(last'.id \in DOMAIN store /\ store[last'.id].chat_id = last'.chat) )
         => FailsNotFound("weight")
      /\ AnalyzeStart(TRUE, NoMsg, <<"utils", "chat">>)
         => FailsNotFound("msg") /\ analyze' = analyze
    ]_vars

\* C19 witness: a weight command has failed with not-found for a row that
\* exists, but in another chat than the target.
C19_Witness ==
  /\ last.cmd = "weight" /\ ~last.ok /\ last.msg = "not_found"
  /\ last.id \in DOMAIN store /\ store[last.id].chat_id # last.chat

\* ------------------------------------------------ the stages of learn
\* The learn invocation ends in this step with a failure carrying the
\* given message, and the step writes nothing
LearnEndsFailing(msg) ==
  /\ last'.cmd = "learn" /\ ~last'.ok /\ last'.msg = msg
  /\ learn'.pc = "idle"
  /\ store' = store

\* C20: a learn invocation goes through its stages in the one order
\* context, expression set, usage-analysis call, learning call, apply,
\* report, writing only while it applies; and a stage that fails (no chat
\* id, no bot message, empty content, no model, a failed model call, a
\* response that cannot be parsed) ends it at once: failure is returned
\* with that stage's own message, no later stage runs, nothing is written.
C20_LearnStages ==
  [][ /\ (learn' # learn /\ learn'.pc = "analysis") => learn.pc = "idle"
      /\ (learn' # learn /\ learn'.pc = "learning") => learn.pc = "analysis"
      /\ (learn'.pc = "apply" /\ learn.pc # "apply") => learn.pc = "learning"
      /\ (learn'.pc = "report" /\ learn.pc # "report") => learn.pc \in {"learning", "apply"}
      /\ (learn' # learn /\ store' # store) => learn.pc = "apply"
      /\ LearnStart(TRUE, NoChat, MsgWithIds, <<"utils", "chat">>)
           => LearnEndsFailing("no_chat_id")
      /\ LearnStart(TRUE, "c1", NoMsg, <<"utils", "chat">>)
           => LearnEndsFailing("no_bot_message")
      /\ LearnStart(TRUE, "c1", Msg("", <<"[", "2", ",", "x", "]">>), <<"utils", "chat">>)
           => LearnEndsFailing("empty_content")
      /\ LearnStart(TRUE, "c1", MsgWithIds, <<>>)
           => LearnEndsFailing("no_model")
      /\ \A er \in ErrTexts :
           /\ LearnAnalysisReturn(FALSE, NoText, NoData, <<"utils", "chat">>, er)
                => LearnEndsFailing("analysis_failed")
           /\ LearnLearningReturn(FALSE, NoText, FALSE, 0, er)
                => LearnEndsFailing("llm_failed")
      /\ \A tx \in TextShapes :
           (~(tx.span /\ (tx.repair \/ tx.direct))
              /\ LearnAnalysisReturn(TRUE, tx, UsedOne, <<"utils", "chat">>, "timeout"))
           => LearnEndsFailing("analysis_unparsable")
      /\ (learn.pc = "report" /\ ~learn.decoded /\ learn' # learn)
           => LearnEndsFailing("json_failed")
    ]_vars

\* C21: every step that changes a row which stays in the store (the boost of
\* a duplicate add, a weight adjustment that keeps the row, a learning
\* write) leaves that row's last_active_time equal to the current time, and
\* as the clock never goes back no row's last_active_time ever decreases.
C21_LastActiveMonotone ==
  [][\A i \in DOMAIN store \cap DOMAIN store' :
       /\ store'[i] # store[i] => store'[i].last_active_time = now
       /\ store'[i].last_active_time >= store[i].last_active_time]_vars

\* C21 witness: after the clock has advanced, a weight adjustment has kept
\* a row and stamped it with the current time.
C21_Witness ==
  /\ last.cmd = "weight" /\ last.msg = "updated"
  /\ last.id \in DOMAIN store
  /\ now > 0
  /\ store[last.id].last_active_time = now

\* A row that the step created or changed
Written(i) == i \in DOMAIN store' /\ (i \notin DOMAIN store \/ store'[i] # store[i])

\* A create_date that is set stays as it is while the row is there
CreateDateKept ==
  \A i \in DOMAIN store \cap DOMAIN store' :
    store[i].create_date # NoDate => store'[i].create_date = store[i].create_date

\* C22: a row that a command has written (created, boosted by a duplicate
\* add, weight adjusted, written by learning) has its create_date set, and
\* a create_date that is set is never changed by a later step.
C22_CreateDateSetOnce ==
  [][/\ \A i \in DOMAIN store' : Written(i) => store'[i].create_date # NoDate
     /\ CreateDateKept]_vars

\* The same for the writes of add and of the weight adjustment alone, and
\* the keeping of a set create_date by every step.
C22_CreateDateOutsideLearning ==
  [][/\ ~LoopStep =>
          \A i \in DOMAIN store' : Written(i) => store'[i].create_date # NoDate
     /\ CreateDateKept]_vars

\* A learning write has left a row without create_date.
C22_LearningLeavesNoDate ==
  /\ learn.pc = "apply"
  /\ NamesRow(learn.entry)
  /\ store[ToInt(learn.entry.id)].last_active_time = now
  /\ now > 0
  /\ store[ToInt(learn.entry.id)].create_date = NoDate

\* An iteration of the learning loop that saved a row (updated_count += 1)
LearnWrites == LoopStep /\ learn'.count > learn.count

\* C23: a learn invocation writes only rows whose id is among the ids its
\* usage analysis judged used (themselves ids of the analysed message's
\* selected_expressions); every other row, of this or another chat, is left
\* as it was.
C23_OnlyUsedWritten ==
  [][LoopStep =>
       /\ LearnWrites => ToInt(learn'.entry.id) \in Range(learn.used)
       /\ \A i \in DOMAIN store \cup DOMAIN store' :
            i \notin Range(learn.used) =>
              i \in DOMAIN store /\ i \in DOMAIN store' /\ store'[i] = store[i]]_vars

\* What does hold: the row written is the one the response's entry names,
\* and every other row is left as it was.
C23_OnlyNamedWritten ==
  [][LoopStep =>
       /\ LearnWrites => NamesRow(learn'.entry)
       /\ store' # store =>
            /\ NamesRow(learn'.entry)
            /\ OthersUnchanged(ToInt(learn'.entry.id))]_vars

\* A learning write has reached a row that the usage analysis did not judge
\* used, and that belongs to another chat than the rows it did.
C23_WritesUnjudgedRow ==
  /\ learn.pc = "apply"
  /\ NamesRow(learn.entry)
  /\ ToInt(learn.entry.id) \notin Range(learn.used)
  /\ now > 0
  /\ store[ToInt(learn.entry.id)].last_active_time = now
  /\ \E j \in Range(learn.used) \cap DOMAIN store :
       store[j].chat_id # store[ToInt(learn.entry.id)].chat_id

\* C24: no step of a learn invocation, the iterations of its apply loop
\* among them, creates or deletes a row or changes a row's id, chat_id or
\* style, and none lowers a weight: every row's weight after the step is at
\* least its weight before (weights being in [0.01, 5.0]).
C24_LearnFrame ==
  [][learn' # learn =>
       /\ DOMAIN store' = DOMAIN store
       /\ \A i \in DOMAIN store :
            /\ store'[i].chat_id = store[i].chat_id
            /\ store'[i].style = store[i].style
            /\ InRange(store[i].count) => store'[i].count >= store[i].count]_vars

\* C24 witness: the apply loop has rewritten the situation of the row that
\* started with weight 1.0 and raised its weight by 0.5.
C24_Witness ==
  /\ learn.pc = "apply"
  /\ learn.count > 0
  /\ NamesRow(learn.entry)
  /\ learn.entry.ns # ""
  /\ store[ToInt(learn.entry.id)].situation = learn.entry.ns
  /\ store[ToInt(learn.entry.id)].situation # RowA.situation
  /\ store[ToInt(learn.entry.id)].style = RowA.style
  /\ store[ToInt(learn.entry.id)].count = RowA.count + SitBoost

\* The rows of a store that carry the triple
WithTriple(st, c, s, t) ==
  {i \in DOMAIN st :
     st[i].chat_id = c /\ st[i].situation = s /\ st[i].style = t}

\* C25: invocations interleave only where one of them is suspended, and an
\* add has no suspension point from its duplicate check to its create or
\* boost; so every add that succeeds, whatever ran before it and whatever
\* learn or msg invocation is suspended meanwhile, leaves exactly one row
\* for a triple that had none and adds no row for a triple that had one:
\* add commands for the same new triple leave exactly one row for it.
C25_AddsLeaveOneRow ==
  [][Returns("add") /\ last'.ok =>
       LET before == WithTriple(store, last'.chat, last'.situation, last'.style)
           after == WithTriple(store', last'.chat, last'.situation, last'.style)
       IN /\ before = {} => Cardinality(after) = 1
          /\ before # {} => after = before /\ DOMAIN store' = DOMAIN store]_vars

\* C25 witness: a second add of a triple that no row had at the start has
\* returned, and the store holds one row for it.
C25_Witness ==
  /\ last.cmd = "add" /\ last.msg = "boosted"
  /\ last.chat = "c2" /\ last.situation = "s2"
  /\ ncmd = 2
  /\ Cardinality(WithTriple(store, "c2", "s2", last.style)) = 1

\* What expressions_details recorded, when the learn command was
\* dispatched, of the rows it found under id i
SeenAtDispatch(i) ==
  {learn.details[k] : k \in {n \in 1..Len(learn.details) :
                               learn.details[n].id = i /\ learn.details[n].count > 0}}

\* C26: del and weight commands run while a learn invocation is suspended
\* in a model call; an iteration of the apply loop on a row the invocation
\* saw at dispatch goes by what the store holds now: if the row has been
\* deleted meanwhile the entry is skipped and the store stays as it is (the
\* row is not created again), and if the row is there its weight becomes
\* min(5.0, current weight + 0.5) on a situation rewrite and stays the
\* current weight otherwise, whatever the weight was at dispatch.
C26_ApplyReadsCurrent ==
  [][LoopStep /\ learn'.entry.dict /\ IsDigitStr(learn'.entry.id) =>
       LET e == learn'.entry
           i == ToInt(learn'.entry.id)
       IN SeenAtDispatch(i) # {} =>
            /\ i \notin DOMAIN store => store' = store
            /\ i \in DOMAIN store =>
                 /\ DOMAIN store' = DOMAIN store
                 /\ store'[i].count =
                      IF e.ns # "" /\ e.ns # store[i].situation
                      THEN Min(WMax, store[i].count + SitBoost)
                      ELSE store[i].count]_vars

\* C26 witness: the loop has rewritten the situation of a row whose weight
\* a weight command changed while the invocation was suspended: the weight
\* is not the one seen at dispatch plus 0.5.
C26_Witness ==
  /\ learn.pc = "apply"
  /\ learn.count > 0
  /\ NamesRow(learn.entry)
  /\ \E d \in SeenAtDispatch(ToInt(learn.entry.id)) :
       /\ store[ToInt(learn.entry.id)].situation = learn.entry.ns
       /\ d.situation # learn.entry.ns
       /\ store[ToInt(learn.entry.id)].count # Min(WMax, d.count + SitBoost)
       /\ store[ToInt(learn.entry.id)].count # d.count

\* The loop has passed over an entry naming a row that was there at
\* dispatch and was deleted while the invocation was suspended.
C26_DeletedSkipped ==
  /\ learn.pc = "apply"
  /\ learn.entry.dict /\ IsDigitStr(learn.entry.id)
  /\ SeenAtDispatch(ToInt(learn.entry.id)) # {}
  /\ ToInt(learn.entry.id) \notin DOMAIN store

\* The "expressions" lists of a learning response
Responses == UNION {[1..n -> Entries] : n \in 0..MaxEntries}

\* Situation and weight of every row are the same in both stores
SameSituationsAndWeights(s1, s2) ==
  /\ DOMAIN s1 = DOMAIN s2
  /\ \A i \in DOMAIN s1 :
       s1[i].situation = s2[i].situation /\ s1[i].count = s2[i].count

\* The loop as a whole is the succession of its iterations: an iteration
\* leaves the store as the loop run on that one entry does.
ApplyAllIsTheLoop ==
  [][LoopStep => store' = ApplyAll(store, <<learn'.entry>>, now)]_vars

\* C27: applying the same learning response twice in a row changes, the
\* second time, no row's situation and no row's weight, also when the
\* response names the same id more than once.
C27_TwiceIsOnce ==
  learn.pc = "learning" =>
    \A es \in Responses :
      SameSituationsAndWeights(ApplyAll(store, es, now),
                               ApplyAll(ApplyAll(store, es, now), es, now))

\* No two entries of the response name the same id with different
\* situations to set
NoRivalEntries(es) ==
  \A j, k \in 1..Len(es) :
    (es[j].dict /\ es[k].dict /\ es[j].id = es[k].id
       /\ es[j].ns # "" /\ es[k].ns # "") => es[j].ns = es[k].ns

\* What does hold: the second application changes nothing when no id is
\* named twice with different situations.
C27_TwiceIsOnceWithoutRivals ==
  learn.pc = "learning" =>
    \A es \in Responses :
      NoRivalEntries(es) =>
        SameSituationsAndWeights(ApplyAll(store, es, now),
                                 ApplyAll(ApplyAll(store, es, now), es, now))

\* C27 witness: a second learn command has applied an entry that a first
\* one had applied already: the row has the entry's situation and the
\* weight the first rewrite gave it, and only its last_active_time is new.
C27_Witness ==
  /\ learn.pc = "apply"
  /\ ncmd = 2
  /\ learn.count = 1
  /\ NamesRow(learn.entry)
  /\ learn.entry.ns = store[ToInt(learn.entry.id)].situation
  /\ store[ToInt(learn.entry.id)].situation # RowA.situation
  /\ store[ToInt(learn.entry.id)].chat_id = RowA.chat_id
  /\ store[ToInt(learn.entry.id)].count = RowA.count + SitBoost

\* C28: a del command with the id of a row and a target chat that resolves
\* (here: no chat token or the token of chat c2, issued in chat c1) succeeds
\* and removes that row, whatever chat the row belongs to; every del that
\* reports a deletion has removed the row of the id it was given and left
\* all other rows as they were.
C28_DelRemovesTheRow ==
  [][Returns("del") =>
       /\ \A i \in Ids, c \in {"", "c2"} :
            (DeleteExpression(TRUE, i, c, "c1") /\ i \in DOMAIN store) =>
               /\ last'.ok /\ last'.msg = "deleted" /\ last'.id = i
               /\ last'.chat = (IF c = "" THEN "c1" ELSE "c2")
       /\ last'.ok =>
            /\ last'.id \in DOMAIN store
            /\ DOMAIN store' = DOMAIN store \ {last'.id}
            /\ OthersUnchanged(last'.id)]_vars

\* C28 witness: the first command was a del of id 1, the row of chat c1,
\* with another chat as its target, and the row is gone.
C28_Witness ==
  /\ ncmd = 1
  /\ last.cmd = "del" /\ last.msg = "deleted"
  /\ last.id = 1
  /\ last.chat # RowA.chat_id
  /\ 1 \notin DOMAIN store

====
